---- MODULE Spec2Model ----
(***************************************************************************)
(* A model of the cnHeat REST client (src/cnHeat.py).                      *)
(*                                                                         *)
(* The client is a single class.  Constructing it authenticates and        *)
(* fetches three lists; every other method builds one request, checks the  *)
(* status and returns decoded JSON or raises.  The remote server is not    *)
(* part of the repository: each response is an input of the call,          *)
(* drawn from a small set.  One action models one whole method call; the   *)
(* variables keep the instance's fields, the call, the requests it issued  *)
(* with the responses it got, and how the call ended.                      *)
(*                                                                         *)
(* Text that the code splits, upper-cases or formats (antenna and site     *)
(* names, the default radio name) is a sequence of one-character strings.  *)
(* Floats are kept in tenths: 58 is 5.8, 185 is 18.5.                      *)
(***************************************************************************)
EXTENDS Integers, Sequences, FiniteSets, TLC

VARIABLES alive, token, headers, sites, predictions, users, call, log, outcome

vars == <<alive, token, headers, sites, predictions, users, call, log, outcome>>

fields == <<alive, token, headers, sites, predictions, users>>

(***************************************************************************)
(* Bounds and input domains                                                *)
(***************************************************************************)
\* longest list a response carries under "objects"
MaxList == 2

RECURSIVE SeqsUpTo(_, _)
SeqsUpTo(S, n) ==
  IF n = 0 THEN {<<>>}
  ELSE LET shorter == SeqsUpTo(S, n - 1)
       IN  shorter \cup {Append(q, x) : q \in {r \in shorter : Len(r) = n - 1}, x \in S}

Denver == <<"d", "e", "n", "v", "e", "r">>
Bo == <<"B", "o">>
HPA90 == <<"H", "P", "A", "-", "9", "0">>
OMNI == <<"O", "M", "N", "I">>

SiteIds == {"s1", "s2"}
AntennaIds == {"a1", "a2"}
SiteObjects == {[id |-> "s1", name |-> Denver], [id |-> "s2", name |-> Bo]}
AntennaObjects == {[id |-> "a1", antenna |-> HPA90], [id |-> "a2", antenna |-> OMNI]}
PredictionLists == {<<>>, <<"p1", "p2">>}
UserLists == {<<>>, <<"u1", "u2">>}
RadioLists == {<<>>, <<"r1">>}
SubscriptionLists == {<<>>, <<"s1">>}
Freqs == {58, 30}
Azimuths == {120, 0}
Credentials == {<<"id1", "sec1">>, <<"id1", "bad">>}
ValidCredentials == {<<"id1", "sec1">>}

(***************************************************************************)
(* Text: str(), split(), upper() and the f-string pieces the code uses     *)
(***************************************************************************)
Lower == <<"a", "b", "c", "d", "e", "f", "g", "h", "i", "j", "k", "l", "m",
           "n", "o", "p", "q", "r", "s", "t", "u", "v", "w", "x", "y", "z">>
Capital == <<"A", "B", "C", "D", "E", "F", "G", "H", "I", "J", "K", "L", "M",
             "N", "O", "P", "Q", "R", "S", "T", "U", "V", "W", "X", "Y", "Z">>
Digits == <<"0", "1", "2", "3", "4", "5", "6", "7", "8", "9">>

\* str.upper(), one character
UpperChar(c) ==
  IF \E i \in 1..26 : Lower[i] = c
  THEN Capital[CHOOSE i \in 1..26 : Lower[i] = c]
  ELSE c

\* str.upper()
upper(s) == [i \in 1..Len(s) |-> UpperChar(s[i])]

\* str(n) of an int
RECURSIVE NatStr(_)
NatStr(n) == IF n < 10 THEN <<Digits[n + 1]>> ELSE NatStr(n \div 10) \o <<Digits[(n % 10) + 1]>>

IntStr(n) == IF n < 0 THEN <<"-">> \o NatStr(0 - n) ELSE NatStr(n)

\* str(f) of a non-negative float with one decimal, kept in tenths: 58 -> "5.8", 30 -> "3.0"
FloatStr(t) == NatStr(t \div 10) \o <<".">> \o NatStr(t % 10)

\* s.split(sep)[0]: the text before the first sep, all of s when it has none
RECURSIVE SplitFirst(_, _)
SplitFirst(s, sep) ==
  IF s = <<>> \/ Head(s) = sep THEN <<>>
  ELSE <<Head(s)>> \o SplitFirst(Tail(s), sep)

(***************************************************************************)
(* Requests, responses and the ways a call ends                            *)
(***************************************************************************)
base_endpoint == "https://internal.cnheat.cambiumnetworks.com/api/v1/"

None == <<>>
Some(v) == <<v>>

NoHeaders == <<>>
NoParams == <<>>
NoJson == <<>>

Request(verb, url, hdrs, params, data, json) ==
  [verb |-> verb, url |-> url, headers |-> hdrs, params |-> params, data |-> data, json |-> json]

Exchange(req, resp) == [req |-> req, resp |-> resp]

\* the JSON body of an error response
ErrBody == [message |-> "error"]
OkStatuses == {200}
FailStatuses == {404}

\* a body of a list endpoint: a JSON object, with or without the "objects" field
ListBodies(lists) == {[has |-> TRUE, objects |-> L] : L \in lists} \cup {[has |-> FALSE, objects |-> <<>>]}

\* a body of any other endpoint: decoded JSON the client hands back as it is
PlainBodies == {[result |-> "ok"]}

TokenBodies == {[has |-> TRUE, access_token |-> "tok1"], [has |-> FALSE, access_token |-> ""]}

Responses(bodies) ==
  {[status |-> st, json |-> b] : st \in OkStatuses, b \in bodies}
    \cup {[status |-> st, json |-> ErrBody] : st \in FailStatuses}

\* the oauth endpoint: a token for the credentials the server knows, 401 for any other
AuthResponses(creds) ==
  IF creds \in ValidCredentials
  THEN {[status |-> st, json |-> b] : st \in OkStatuses, b \in TokenBodies}
  ELSE {[status |-> 401, json |-> ErrBody]}

\* Response.raise_for_status(): an HTTPError for a 4xx or 5xx status
raise_for_status(resp) == resp.status >= 400 /\ resp.status < 600

\* str(e) of the HTTPError
HTTPErrorText(resp) == IF resp.status < 500 THEN "Client Error" ELSE "Server Error"

\* the default taken although the field is there
get_objects_default(json) == <<>>

\* dict.get('objects', [])
get_objects(json) == IF json.has THEN json.objects ELSE <<>>

Returned(v) == [kind |-> "return", msg |-> <<>>, value |-> v]
Raised(kind, msg) == [kind |-> kind, msg |-> msg, value |-> None]

\* raise RuntimeError(f"{prefix}: {e}")
RuntimeErrorOf(prefix, resp) == Raised("RuntimeError", <<prefix, ": ", HTTPErrorText(resp)>>)

\* how a call ends: the instance after it, the exchanges it made in order, its outcome
Result(self, exchanges, out) == [self |-> self, log |-> exchanges, outcome |-> out]

\* the same, sending the request a second time after a failure
Plain_retrying(self, req, resp, prefix) ==
  IF raise_for_status(resp)
  THEN Result(self, <<Exchange(req, resp), Exchange(req, resp)>>, RuntimeErrorOf(prefix, resp))
  ELSE Result(self, <<Exchange(req, resp)>>, Returned(resp.json))

\* try: response = requests.<verb>(...); response.raise_for_status(); return response.json()
\* except requests.RequestException as e: raise RuntimeError(f"{prefix}: {e}")
Plain(self, req, resp, prefix) ==
  Result(self, <<Exchange(req, resp)>>,
         IF raise_for_status(resp) THEN RuntimeErrorOf(prefix, resp) ELSE Returned(resp.json))

\* the same, returning response.json().get('objects', [])
Listing(self, req, resp, prefix) ==
  Result(self, <<Exchange(req, resp)>>,
         IF raise_for_status(resp) THEN RuntimeErrorOf(prefix, resp)
         ELSE Returned(get_objects(resp.json)))

SiteResponses == Responses(ListBodies(SeqsUpTo(SiteObjects, MaxList)))
AntennaResponses == Responses(ListBodies(SeqsUpTo(AntennaObjects, MaxList)))
PredictionResponses == Responses(ListBodies(PredictionLists))
UserResponses == Responses(ListBodies(UserLists))
RadioListResponses == Responses(ListBodies(RadioLists))
SubscriptionResponses == Responses(ListBodies(SubscriptionLists))
PlainResponses == Responses(PlainBodies)

(***************************************************************************)
(* The methods.  self is the instance: [token, headers, sites,             *)
(* predictions, users]; the resp arguments are the server's answers to the *)
(* requests of the call, in the order the call issues them.                *)
(***************************************************************************)
Get(self, path) == Request("GET", <<base_endpoint>> \o path, self.headers, NoParams, NoJson, NoJson)
Delete(self, path, json) == Request("DELETE", <<base_endpoint>> \o path, self.headers, NoParams, NoJson, json)
Post(self, path, json) == Request("POST", <<base_endpoint>> \o path, self.headers, NoParams, NoJson, json)
Patch(self, path, json) == Request("PATCH", <<base_endpoint>> \o path, self.headers, NoParams, NoJson, json)

\* response.json().get("access_token")
get_access_token(json) == IF json.has THEN json.access_token ELSE "None"

_authenticate(self, creds, resp) ==
  LET data == [client_id |-> creds[1], client_secret |-> creds[2]]
      req == Request("POST", <<base_endpoint, "oauth/token">>, NoHeaders, NoParams, data, NoJson)
  IN  Result(self, <<Exchange(req, resp)>>,
             IF raise_for_status(resp) THEN RuntimeErrorOf("Authentication failed", resp)
             ELSE Returned(get_access_token(resp.json)))

get_credits(self, resp) == Plain(self, Get(self, <<"credits">>), resp, "Failed to fetch credits")

get_antennas(self, freq, resp) ==
  LET req == Request("GET", <<base_endpoint, "antennas">>, self.headers, [frequency |-> freq], NoJson, NoJson)
  IN  Listing(self, req, resp, "Failed to fetch antennas")

\* self.sites[site_id] where self.sites is a list and site_id a str
list_getitem_str(list, key) == Raised("TypeError", <<"list indices must be integers or slices, not str">>)

get_site_radios(self, site_id, resp) ==
  Result(self, <<Exchange(Get(self, <<"radios/", site_id>>), resp)>>,
         IF raise_for_status(resp)
         THEN \* the message is built from self.sites[site_id]['name'] before RuntimeError is raised
              list_getitem_str(self.sites, site_id)
         ELSE Returned(get_objects(resp.json)))

get_radio(self, radio_id, resp) == Plain(self, Get(self, <<"radio/", radio_id>>), resp, "Failed to fetch radio")

delete_radio(self, radio_id, resp) == Plain(self, Delete(self, <<"radio/", radio_id>>, NoJson), resp, "Failed to delete radio")

\* get_sites that also stores what it fetched in the instance
get_sites_storing(self, resp) ==
  LET r == Listing(self, Get(self, <<"sites">>), resp, "Failed to fetch sites")
  IN  IF r.outcome.kind = "return" THEN Result([self EXCEPT !.sites = r.outcome.value], r.log, r.outcome) ELSE r

get_sites(self, resp) == Listing(self, Get(self, <<"sites">>), resp, "Failed to fetch sites")

rename_site(self, site_id, name, resp) == Plain(self, Patch(self, <<"site/", site_id>>, [name |-> name]), resp, "Failed to update site")

create_site(self, name, lat, lon, credit_id, resp) ==
  LET data == [name |-> name, lat |-> lat, lon |-> lon, credits |-> credit_id]
  IN  Plain(self, Post(self, <<"sites">>, data), resp, "Failed to create site")

get_predictions(self, resp) == Listing(self, Get(self, <<"predictions">>), resp, "Failed to fetch predicitions")

create_prediction(self, prediction_name, radio_id_list, resp) ==
  LET data == [name |-> prediction_name, radio_list |-> radio_id_list]
  IN  Plain(self, Post(self, <<"predictions">>, data), resp, "Failed to create predicition")

get_predictions_statuses(self, resp) == Listing(self, Get(self, <<"predictions/jobmanagement">>), resp, "Failed to fetch predicition statuses")

\* the rename sent to the prediction itself, as delete_prediction addresses it
rename_prediction_unsuffixed(self, prediction_id, new_name, resp) ==
  Plain(self, Patch(self, <<"prediction/", prediction_id>>, [name |-> new_name]), resp, "Failed to rename predicition")

rename_prediction(self, prediction_id, new_name, resp) ==
  Plain(self, Patch(self, <<"prediction/", prediction_id, "/rename">>, [name |-> new_name]), resp, "Failed to rename predicition")

delete_prediction(self, prediction_id, resp) ==
  Plain(self, Delete(self, <<"prediction/", prediction_id>>, NoJson), resp, "Failed to delete predicition")

get_users(self, resp) == Listing(self, Get(self, <<"users">>), resp, "Failed to get users")

add_user(self, email, role, resp) ==
  Plain(self, Post(self, <<"users">>, [email |-> email, permission |-> role]), resp, "Failed to add user")

delete_user(self, email, resp) == Plain(self, Delete(self, <<"user">>, [email |-> email]), resp, "Failed to delete user")

get_subscriptions(self, resp) == Listing(self, Get(self, <<"subscriptions">>), resp, "Failed to get subscriptions")

renew_subscriptions(self, site_id, resp) ==
  Plain(self, Patch(self, <<"subscription/", site_id, "/renew">>, NoJson), resp, "Failed to renew subscription")

terminate_subscription(self, site_id, resp) ==
  Plain(self, Patch(self, <<"subscription/", site_id, "/terminate">>, NoJson), resp, "Failed to renew subscription")

\* the defaults with the clearance the docstring gives
create_radio_defaults_docstring ==
  [aglHeightMeters |-> 20, radioName |-> None, folliageTuning |-> -1, arHeightMeters |-> 0,
   radiusMeters |-> 12875, smGain |-> 185, tilt |-> -2, txClearanceMeters |-> 50, txPowerDbm |-> 272]

\* the keyword defaults of create_radio's signature
create_radio_defaults ==
  [aglHeightMeters |-> 20, radioName |-> None, folliageTuning |-> -1, arHeightMeters |-> 0,
   radiusMeters |-> 12875, smGain |-> 185, tilt |-> -2, txClearanceMeters |-> 30, txPowerDbm |-> 272]

\* the keyword defaults of update_radio's signature
update_radio_defaults ==
  [aglHeightMeters |-> 20, radioName |-> None, folliageTuning |-> -1, arHeightMeters |-> 0,
   radiusMeters |-> 12875, smGain |-> 185, tilt |-> -2, txClearanceMeters |-> 30, txPowerDbm |-> 272]

\* a parameter's value: the keyword argument when the caller passed it, the default otherwise
Param(defaults, kw, name) == IF name \in DOMAIN kw THEN kw[name] ELSE defaults[name]

\* the JSON body both radio methods build
radio_data(antennaId, radioName, azimuth, freq, defaults, kw) ==
  ("antenna" :> antennaId) @@ ("name" :> radioName) @@ ("azimuth" :> azimuth)
    @@ ("foliage_tuning" :> Param(defaults, kw, "folliageTuning"))
    @@ ("frequency(ghz)" :> freq)
    @@ ("height(m)" :> Param(defaults, kw, "aglHeightMeters"))
    @@ ("height_rooftop(m)" :> Param(defaults, kw, "arHeightMeters"))
    @@ ("radius(m)" :> Param(defaults, kw, "radiusMeters"))
    @@ ("sm_gain(dbi)" :> Param(defaults, kw, "smGain"))
    @@ ("tilt" :> Param(defaults, kw, "tilt"))
    @@ ("txclearance(m)" :> Param(defaults, kw, "txClearanceMeters"))
    @@ ("txpower(dbm)" :> Param(defaults, kw, "txPowerDbm"))

\* for s in sites: if s['id'] == site_id: site_name = s['name']; break
\* None when the loop ends without binding site_name
site_name_lookup(fetched, site_id) ==
  LET hits == {i \in DOMAIN fetched : fetched[i].id = site_id}
  IN  IF hits = {} THEN None
      ELSE Some(fetched[CHOOSE i \in hits : \A j \in hits : i <= j].name)

\* for a in antennas: if a['id'] == antennaId: antenna_name = a['antenna']; break
antenna_name_lookup(antennas, antennaId) ==
  LET hits == {i \in DOMAIN antennas : antennas[i].id = antennaId}
  IN  IF hits = {} THEN None
      ELSE Some(antennas[CHOOSE i \in hits : \A j \in hits : i <= j].antenna)

\* the default name with the site's name as it is spelled
default_radio_name_as_spelled(antenna_name, azimuth, freq, site_name) ==
  <<"A", "P", "-">> \o SplitFirst(antenna_name, "-") \o <<"-">> \o IntStr(azimuth) \o <<"-">>
    \o SplitFirst(FloatStr(freq), ".") \o <<" ", "G", "H", "Z", ".">> \o site_name

\* f"AP-{antenna_name.split("-")[0]}-{azimuth}-{str(freq).split(".")[0]} GHZ.{site_name.upper()}"
default_radio_name(antenna_name, azimuth, freq, site_name) ==
  <<"A", "P", "-">> \o SplitFirst(antenna_name, "-") \o <<"-">> \o IntStr(azimuth) \o <<"-">>
    \o SplitFirst(FloatStr(freq), ".") \o <<" ", "G", "H", "Z", ".">> \o upper(site_name)

\* names bound to "" before the loops: a missing id goes unnoticed
create_radio_name_prebound(radioName, fetched, antennas, site_id, freq, antennaId, azimuth) ==
  LET site_name == site_name_lookup(fetched, site_id)
      antenna_name == antenna_name_lookup(antennas, antennaId)
  IN  IF radioName # None THEN Returned(radioName[1])
      ELSE Returned(default_radio_name(IF antenna_name = None THEN <<>> ELSE antenna_name[1], azimuth, freq,
                                       IF site_name = None THEN <<>> ELSE site_name[1]))

\* the name create_radio sends: the caller's, or the default built from the two lookups;
\* reading a name a loop never bound raises UnboundLocalError (antenna_name is read first)
create_radio_name(radioName, fetched, antennas, site_id, freq, antennaId, azimuth) ==
  LET site_name == site_name_lookup(fetched, site_id)
      antenna_name == antenna_name_lookup(antennas, antennaId)
  IN  IF radioName # None THEN Returned(radioName[1])
      ELSE IF antenna_name = None THEN Raised("UnboundLocalError", <<"antenna_name">>)
      ELSE IF site_name = None THEN Raised("UnboundLocalError", <<"site_name">>)
      ELSE Returned(default_radio_name(antenna_name[1], azimuth, freq, site_name[1]))

create_radio(self, site_id, freq, antennaId, azimuth, kw, resp1, resp2, resp3) ==
  LET a == get_antennas(self, freq, resp1)
      s == get_sites(a.self, resp2)
      name == create_radio_name(Param(create_radio_defaults, kw, "radioName"), s.outcome.value,
                                a.outcome.value, site_id, freq, antennaId, azimuth)
      data == radio_data(antennaId, name.value, azimuth, freq, create_radio_defaults, kw)
      req == Post(s.self, <<"radio/", site_id>>, data)
  IN  IF a.outcome.kind # "return" THEN Result(a.self, a.log, a.outcome)
      ELSE IF s.outcome.kind # "return" THEN Result(s.self, a.log \o s.log, s.outcome)
      ELSE IF name.kind # "return" THEN Result(s.self, a.log \o s.log, name)
      ELSE Result(s.self, a.log \o s.log \o <<Exchange(req, resp3)>>,
                  IF raise_for_status(resp3) THEN RuntimeErrorOf("Failed to create radio", resp3)
                  ELSE Returned(resp3.json))

NoName == <<"N", "o", " ", "N", "a", "m", "e">>

update_radio(self, radio_id, freq, antennaId, azimuth, kw, resp) ==
  LET given == Param(update_radio_defaults, kw, "radioName")
      radioName == IF given = None THEN NoName ELSE given[1]
      data == radio_data(antennaId, radioName, azimuth, freq, update_radio_defaults, kw)
  IN  Plain(self, Patch(self, <<"radio/", radio_id>>, data), resp, "Failed to update radio")

\* the object before __init__ has assigned anything
Blank == [token |-> "", headers |-> NoHeaders, sites |-> <<>>, predictions |-> <<>>, users |-> <<>>]

\* a construction that guards the users fetch and goes on with an empty list
__init__guarded(creds, respA, respS, respP, respU) ==
  LET a == _authenticate(Blank, creds, respA)
      self1 == [a.self EXCEPT !.token = a.outcome.value, !.headers = <<"Bearer ", a.outcome.value>>]
      s == get_sites(self1, respS)
      self2 == [s.self EXCEPT !.sites = s.outcome.value]
      p == get_predictions(self2, respP)
      self3 == [p.self EXCEPT !.predictions = p.outcome.value]
      u == get_users(self3, respU)
      self4 == [u.self EXCEPT !.users = IF u.outcome.kind = "return" THEN u.outcome.value ELSE <<>>]
  IN  IF a.outcome.kind # "return" THEN Result(a.self, a.log, a.outcome)
      ELSE IF s.outcome.kind # "return" THEN Result(s.self, a.log \o s.log, s.outcome)
      ELSE IF p.outcome.kind # "return" THEN Result(p.self, a.log \o s.log \o p.log, p.outcome)
      ELSE Result(self4, a.log \o s.log \o p.log \o u.log, Returned("instance"))

__init__(creds, respA, respS, respP, respU) ==
  LET a == _authenticate(Blank, creds, respA)
      self1 == [a.self EXCEPT !.token = a.outcome.value, !.headers = <<"Bearer ", a.outcome.value>>]
      s == get_sites(self1, respS)
      self2 == [s.self EXCEPT !.sites = s.outcome.value]
      p == get_predictions(self2, respP)
      self3 == [p.self EXCEPT !.predictions = p.outcome.value]
      u == get_users(self3, respU)
      self4 == [u.self EXCEPT !.users = u.outcome.value]
  IN  IF a.outcome.kind # "return" THEN Result(a.self, a.log, a.outcome)
      ELSE IF s.outcome.kind # "return" THEN Result(s.self, a.log \o s.log, s.outcome)
      ELSE IF p.outcome.kind # "return" THEN Result(p.self, a.log \o s.log \o p.log, p.outcome)
      ELSE IF u.outcome.kind # "return" THEN Result(u.self, a.log \o s.log \o p.log \o u.log, u.outcome)
      ELSE Result(self4, a.log \o s.log \o p.log \o u.log, Returned("instance"))

(***************************************************************************)
(* The state machine: the caller constructs a client, then calls its       *)
(* methods one after the other, in any order, with any arguments.          *)
(***************************************************************************)
RadioIds == {"r1"}
PredictionIds == {"p1", "p2"}
SiteNames == {Denver, Bo}
CustomName == <<"R", "-", "1">>
Emails == {"ann@example.org"}
Roles == {"admin"}
PredictionNames == {"Q3-Plan", "Q4-Plan"}
Coordinates == {397}
CreditIds == {"c1"}

\* the keyword arguments a caller passes to the radio methods
KwArgs ==
  { <<>>,
    [radioName |-> Some(CustomName)],
    [aglHeightMeters |-> 35, tilt |-> -4] }

NoCall == [method |-> "none", args |-> <<>>]
NoOutcome == [kind |-> "none", msg |-> <<>>, value |-> None]

Init ==
  /\ alive = FALSE
  /\ token = Blank.token
  /\ headers = Blank.headers
  /\ sites = Blank.sites
  /\ predictions = Blank.predictions
  /\ users = Blank.users
  /\ call = NoCall
  /\ log = <<>>
  /\ outcome = NoOutcome

Self == [token |-> token, headers |-> headers, sites |-> sites, predictions |-> predictions, users |-> users]

\* the caller holds an instance and no call is running
Ready == alive /\ call.method = "none"

\* a call of `method` with `args` on the instance that ends as `res`
Invoke(method, args, res) ==
  /\ call' = [method |-> method, args |-> args]
  /\ log' = res.log
  /\ outcome' = res.outcome
  /\ token' = res.self.token
  /\ headers' = res.self.headers
  /\ sites' = res.self.sites
  /\ predictions' = res.self.predictions
  /\ users' = res.self.users
  /\ UNCHANGED alive

\* cnHeat(client_id, client_secret): the caller holds an instance only when __init__ returns
Construct ==
  /\ ~alive
  /\ call.method = "none"
  /\ \E creds \in Credentials, respS \in SiteResponses,
        respP \in PredictionResponses, respU \in UserResponses :
       \E respA \in AuthResponses(creds) :
         LET res == __init__(creds, respA, respS, respP, respU)
             made == res.outcome.kind = "return"
             obj == IF made THEN res.self ELSE Blank
         IN  /\ alive' = made
             /\ call' = [method |-> "__init__", args |-> creds]
             /\ log' = res.log
             /\ outcome' = res.outcome
             /\ token' = obj.token
             /\ headers' = obj.headers
             /\ sites' = obj.sites
             /\ predictions' = obj.predictions
             /\ users' = obj.users

GetCredits ==
  /\ Ready
  /\ \E r \in PlainResponses : Invoke("get_credits", <<>>, get_credits(Self, r))

GetAntennas ==
  /\ Ready
  /\ \E freq \in Freqs, r \in AntennaResponses :
       Invoke("get_antennas", <<freq>>, get_antennas(Self, freq, r))

GetSiteRadios ==
  /\ Ready
  /\ \E site_id \in SiteIds, r \in RadioListResponses :
       Invoke("get_site_radios", <<site_id>>, get_site_radios(Self, site_id, r))

GetRadio ==
  /\ Ready
  /\ \E id \in RadioIds, r \in PlainResponses : Invoke("get_radio", <<id>>, get_radio(Self, id, r))

DeleteRadio ==
  /\ Ready
  /\ \E id \in RadioIds, r \in PlainResponses : Invoke("delete_radio", <<id>>, delete_radio(Self, id, r))

CreateRadio ==
  /\ Ready
  /\ \E site_id \in SiteIds, freq \in Freqs, antennaId \in AntennaIds, azimuth \in Azimuths, kw \in KwArgs :
       \E r1 \in AntennaResponses, r2 \in SiteResponses,
          r3 \in PlainResponses :
         Invoke("create_radio", <<site_id, freq, antennaId, azimuth, kw>>,
                create_radio(Self, site_id, freq, antennaId, azimuth, kw, r1, r2, r3))

UpdateRadio ==
  /\ Ready
  /\ \E id \in RadioIds, freq \in Freqs, antennaId \in AntennaIds, azimuth \in Azimuths, kw \in KwArgs :
       \E r \in PlainResponses :
         Invoke("update_radio", <<id, freq, antennaId, azimuth, kw>>,
                update_radio(Self, id, freq, antennaId, azimuth, kw, r))

GetSites ==
  /\ Ready
  /\ \E r \in SiteResponses : Invoke("get_sites", <<>>, get_sites(Self, r))

RenameSite ==
  /\ Ready
  /\ \E site_id \in SiteIds, name \in SiteNames, r \in PlainResponses :
       Invoke("rename_site", <<site_id, name>>, rename_site(Self, site_id, name, r))

CreateSite ==
  /\ Ready
  /\ \E name \in SiteNames, lat \in Coordinates, lon \in Coordinates, credit_id \in CreditIds :
       \E r \in PlainResponses :
         Invoke("create_site", <<name, lat, lon, credit_id>>, create_site(Self, name, lat, lon, credit_id, r))

GetPredictions ==
  /\ Ready
  /\ \E r \in PredictionResponses : Invoke("get_predictions", <<>>, get_predictions(Self, r))


CreatePrediction ==
  /\ Ready
  /\ \E name \in PredictionNames, radios \in RadioLists, r \in PlainResponses :
       Invoke("create_prediction", <<name, radios>>, create_prediction(Self, name, radios, r))

GetPredictionsStatuses ==
  /\ Ready
  /\ \E r \in PredictionResponses :
       Invoke("get_predictions_statuses", <<>>, get_predictions_statuses(Self, r))

RenamePrediction ==
  /\ Ready
  /\ \E id \in PredictionIds, name \in PredictionNames, r \in PlainResponses :
       Invoke("rename_prediction", <<id, name>>, rename_prediction(Self, id, name, r))

DeletePrediction ==
  /\ Ready
  /\ \E id \in PredictionIds, r \in PlainResponses :
       Invoke("delete_prediction", <<id>>, delete_prediction(Self, id, r))

GetUsers ==
  /\ Ready
  /\ \E r \in UserResponses : Invoke("get_users", <<>>, get_users(Self, r))

AddUser ==
  /\ Ready
  /\ \E email \in Emails, role \in Roles, r \in PlainResponses :
       Invoke("add_user", <<email, role>>, add_user(Self, email, role, r))

DeleteUser ==
  /\ Ready
  /\ \E email \in Emails, r \in PlainResponses : Invoke("delete_user", <<email>>, delete_user(Self, email, r))

GetSubscriptions ==
  /\ Ready
  /\ \E r \in SubscriptionResponses : Invoke("get_subscriptions", <<>>, get_subscriptions(Self, r))


RenewSubscriptions ==
  /\ Ready
  /\ \E site_id \in SiteIds, r \in PlainResponses :
       Invoke("renew_subscriptions", <<site_id>>, renew_subscriptions(Self, site_id, r))

TerminateSubscription ==
  /\ Ready
  /\ \E site_id \in SiteIds, r \in PlainResponses :
       Invoke("terminate_subscription", <<site_id>>, terminate_subscription(Self, site_id, r))

\* the call is over: the caller has its result or its exception and is free to call again
Resume ==
  /\ call.method # "none"
  /\ call' = NoCall
  /\ log' = <<>>
  /\ outcome' = NoOutcome
  /\ UNCHANGED fields

Next ==
  \/ Construct
  \/ Resume
  \/ GetCredits
  \/ GetAntennas
  \/ GetSiteRadios
  \/ GetRadio
  \/ DeleteRadio
  \/ CreateRadio
  \/ UpdateRadio
  \/ GetSites
  \/ RenameSite
  \/ CreateSite
  \/ GetPredictions
  \/ CreatePrediction
  \/ GetPredictionsStatuses
  \/ RenamePrediction
  \/ DeletePrediction
  \/ GetUsers
  \/ AddUser
  \/ DeleteUser
  \/ GetSubscriptions
  \/ RenewSubscriptions
  \/ TerminateSubscription

Spec == Init /\ [][Next]_vars

(***************************************************************************)
(* Vocabulary of the properties                                            *)
(***************************************************************************)
Is2xx(resp) == resp.status >= 200 /\ resp.status <= 299

\* the list a decoded body carries under "objects", none when it has no such field
ObjectsIn(json) == IF json.has THEN json.objects ELSE <<>>

IdsOf(list) == {list[i].id : i \in DOMAIN list}

Contains(msg, text) == \E i \in DOMAIN msg : msg[i] = text

EndpointMethods ==
  {"get_credits", "get_antennas", "get_site_radios", "get_radio", "delete_radio", "create_radio",
   "update_radio", "get_sites", "rename_site", "create_site", "get_predictions", "create_prediction",
   "get_predictions_statuses", "rename_prediction", "delete_prediction", "get_users", "add_user",
   "delete_user", "get_subscriptions", "renew_subscriptions", "terminate_subscription"}

\* the request a method exists to make: the POST of create_radio, the only request of the others
OwnRequestIssued ==
  IF call.method = "create_radio" THEN Len(log) = 3 ELSE Len(log) = 1

OwnExchange == log[Len(log)]

\* the literal text at the head of the message in each method's own raise statement
StaticPrefix(method) ==
  CASE method = "get_credits" -> "Failed to fetch credits"
    [] method = "get_antennas" -> "Failed to fetch antennas"
    [] method = "get_site_radios" -> "Failed to fetch "
    [] method = "get_radio" -> "Failed to fetch radio"
    [] method = "delete_radio" -> "Failed to delete radio"
    [] method = "create_radio" -> "Failed to create radio"
    [] method = "update_radio" -> "Failed to update radio"
    [] method = "get_sites" -> "Failed to fetch sites"
    [] method = "rename_site" -> "Failed to update site"
    [] method = "create_site" -> "Failed to create site"
    [] method = "get_predictions" -> "Failed to fetch predicitions"
    [] method = "create_prediction" -> "Failed to create predicition"
    [] method = "get_predictions_statuses" -> "Failed to fetch predicition statuses"
    [] method = "rename_prediction" -> "Failed to rename predicition"
    [] method = "delete_prediction" -> "Failed to delete predicition"
    [] method = "get_users" -> "Failed to get users"
    [] method = "add_user" -> "Failed to add user"
    [] method = "delete_user" -> "Failed to delete user"
    [] method = "get_subscriptions" -> "Failed to get subscriptions"
    [] method = "renew_subscriptions" -> "Failed to renew subscription"
    [] method = "terminate_subscription" -> "Failed to renew subscription"

(***************************************************************************)
(* C1                                                                      *)
(***************************************************************************)
\* C1: whenever an endpoint method's own request is answered with a non-2xx status, the call
\* ends in a RuntimeError whose message contains the static prefix of that method's raise
\* statement (delete_radio: "Failed to delete radio").
C1_FailurePrefix ==
  (call.method \in EndpointMethods /\ OwnRequestIssued /\ ~Is2xx(OwnExchange.resp))
    => (outcome.kind = "RuntimeError" /\ Contains(outcome.msg, StaticPrefix(call.method)))

(***************************************************************************)
(* C2                                                                      *)
(***************************************************************************)
\* C2: every call, construction included, either returns or raises RuntimeError; no other kind
\* of exception leaves a method.
C2_ReturnOrRuntimeError ==
  call.method # "none" => outcome.kind \in {"return", "RuntimeError"}

(***************************************************************************)
(* C3                                                                      *)
(***************************************************************************)
ConstructCall == call.method = "__init__"

AllAnswered2xx == \A i \in DOMAIN log : Is2xx(log[i].resp)

\* C3 as stated: with valid credentials construction succeeds, and the three fields hold the
\* lists the server returned for sites, predictions and users.
C3_ValidCredentialsConstruct ==
  (ConstructCall /\ call.args \in ValidCredentials)
    => /\ alive
       /\ Len(log) = 4
       /\ sites = ObjectsIn(log[2].resp.json)
       /\ predictions = ObjectsIn(log[3].resp.json)
       /\ users = ObjectsIn(log[4].resp.json)

\* C3 (amended): with valid credentials and every request of the construction answered 2xx,
\* construction succeeds and sites, predictions and users hold exactly the lists the server
\* returned under "objects" for GET sites, GET predictions and GET users of that construction
\* (the empty list where a response carries no such field).
C3_SnapshotsAreTheServersLists ==
  (ConstructCall /\ call.args \in ValidCredentials /\ AllAnswered2xx)
    => /\ alive
       /\ outcome.kind = "return"
       /\ Len(log) = 4
       /\ log[2].req.url = <<base_endpoint, "sites">>
       /\ log[3].req.url = <<base_endpoint, "predictions">>
       /\ log[4].req.url = <<base_endpoint, "users">>
       /\ sites = ObjectsIn(log[2].resp.json)
       /\ predictions = ObjectsIn(log[3].resp.json)
       /\ users = ObjectsIn(log[4].resp.json)

C3_Witness ==
  /\ ConstructCall
  /\ alive
  /\ Len(sites) = 2
  /\ sites = log[2].resp.json.objects
  /\ predictions = <<"p1", "p2">>
  /\ users = <<"u1", "u2">>

(***************************************************************************)
(* C4                                                                      *)
(***************************************************************************)
\* C4: once the client is constructed, no call changes its sites, predictions or users: each
\* step of a live client leaves the three fields as they were, whatever the server answers.
C4_SnapshotsNeverChange ==
  [][alive => (sites' = sites /\ predictions' = predictions /\ users' = users)]_vars

\* a create_radio call has re-fetched a site list that differs from the snapshot, which stands
C4_Witness ==
  /\ alive
  /\ call.method = "create_radio"
  /\ Len(log) = 3
  /\ Is2xx(log[3].resp)
  /\ sites # <<>>
  /\ ObjectsIn(log[2].resp.json) # sites

(***************************************************************************)
(* C5                                                                      *)
(***************************************************************************)
CreateRadioCall == call.method = "create_radio"

\* create_radio's arguments, by position in the call
ArgSiteId == call.args[1]
ArgFreq == call.args[2]
ArgAntennaId == call.args[3]
ArgAzimuth == call.args[4]
ArgKw == call.args[5]

NoNameGiven == "radioName" \notin DOMAIN ArgKw

\* both lists of a create_radio call were fetched
ListsFetched == Len(log) >= 2 /\ Is2xx(log[1].resp) /\ Is2xx(log[2].resp)

FetchedAntennas == ObjectsIn(log[1].resp.json)
FetchedSites == ObjectsIn(log[2].resp.json)

\* the text of s before its first "-", all of it when it has none
BeforeDash(s) ==
  LET dashes == {i \in DOMAIN s : s[i] = "-"}
      cut == IF dashes = {} THEN Len(s) + 1 ELSE CHOOSE i \in dashes : \A j \in dashes : i <= j
  IN  SubSeq(s, 1, cut - 1)

\* AP-{antenna name up to its first '-'}-{azimuth}-{integer part of freq} GHZ.{SITE NAME}
NameByTheRule(antenna_name, azimuth, freq, site_name) ==
  <<"A", "P", "-">> \o BeforeDash(antenna_name) \o <<"-">> \o IntStr(azimuth) \o <<"-">>
    \o IntStr(freq \div 10) \o <<" ", "G", "H", "Z", ".">>
    \o [i \in DOMAIN site_name |-> UpperChar(site_name[i])]

\* "AP-HPA-120-5 GHZ.DENVER"
ExampleName ==
  <<"A", "P", "-", "H", "P", "A", "-", "1", "2", "0", "-", "5", " ", "G", "H", "Z", ".",
    "D", "E", "N", "V", "E", "R">>

NameOfSite(list, id) == (CHOOSE i \in {list[j] : j \in DOMAIN list} : i.id = id).name
NameOfAntenna(list, id) == (CHOOSE i \in {list[j] : j \in DOMAIN list} : i.id = id).antenna

SendsDefaultName(fromSites) ==
  /\ Len(log) = 3
  /\ log[3].req.verb = "POST"
  /\ log[3].req.url = <<base_endpoint, "radio/", ArgSiteId>>
  /\ log[3].req.json["name"] =
       NameByTheRule(NameOfAntenna(FetchedAntennas, ArgAntennaId), ArgAzimuth, ArgFreq,
                     NameOfSite(fromSites, ArgSiteId))

\* C5 as stated: no radioName, site_id in the sites snapshot, antennaId in the fetched antenna
\* list: the radio is sent under the default name.
C5_DefaultNameForSnapshotSite ==
  (CreateRadioCall /\ NoNameGiven /\ ListsFetched
     /\ ArgSiteId \in IdsOf(sites) /\ ArgAntennaId \in IdsOf(FetchedAntennas))
    => SendsDefaultName(sites)

\* C5 (amended): create_radio called with radioName=None, both of its fetches answered 2xx, a
\* site_id present in the site list it has just fetched and an antennaId present in the
\* antenna list it has just fetched sends a radio named
\* AP-{antenna name up to its first '-'}-{azimuth}-{integer part of freq} GHZ.{site name in
\* upper case}, the names being those of the fetched lists; "HPA-90", 120, 5.8, "denver" give
\* "AP-HPA-120-5 GHZ.DENVER".
C5_DefaultNameForFetchedSite ==
  (CreateRadioCall /\ NoNameGiven /\ ListsFetched
     /\ ArgSiteId \in IdsOf(FetchedSites) /\ ArgAntennaId \in IdsOf(FetchedAntennas))
    => /\ SendsDefaultName(FetchedSites)
       /\ (ArgSiteId = "s1" /\ ArgAntennaId = "a1" /\ ArgAzimuth = 120 /\ ArgFreq = 58)
            => log[3].req.json["name"] = ExampleName

C5_Witness ==
  /\ CreateRadioCall
  /\ NoNameGiven
  /\ Len(log) = 3
  /\ log[3].req.json["name"] = ExampleName
  /\ outcome.kind = "return"

(***************************************************************************)
(* C6                                                                      *)
(***************************************************************************)
IdMissing == ArgSiteId \notin IdsOf(FetchedSites) \/ ArgAntennaId \notin IdsOf(FetchedAntennas)

RadioFields ==
  {"antenna", "name", "azimuth", "foliage_tuning", "frequency(ghz)", "height(m)",
   "height_rooftop(m)", "radius(m)", "sm_gain(dbi)", "tilt", "txclearance(m)", "txpower(dbm)"}

\* a radio method was called with its required arguments only and has sent its body
RadioSentWithDefaults ==
  /\ call.method \in {"create_radio", "update_radio"}
  /\ ArgKw = <<>>
  /\ OwnRequestIssued

C8_OneRequestPerCall ==
  call.method \in EndpointMethods => Len(log) = 1

\* the requests of create_radio, in the order it issues them
CreateRadioOrder == <<<<"GET", "antennas">>, <<"GET", "sites">>, <<"POST", "radio/">>>>

\* C8 (amended): every method of a constructed client other than create_radio performs
\* exactly one HTTP call per invocation, whatever the arguments and whether it succeeds or
\* fails; create_radio performs up to three, GET antennas, GET sites and POST radio in that
\* order, each at most once, stopping after the first that fails or when the default name
\* cannot be built. No request is re-issued.
C8_RequestsPerCall ==
  /\ (call.method \in EndpointMethods \ {"create_radio"}) => Len(log) = 1
  /\ CreateRadioCall =>
       /\ Len(log) \in 1..3
       /\ \A i \in DOMAIN log :
            /\ log[i].req.verb = CreateRadioOrder[i][1]
            /\ log[i].req.url[2] = CreateRadioOrder[i][2]
            /\ i < Len(log) => Is2xx(log[i].resp)
       /\ Len(log) < 3 => (~Is2xx(log[Len(log)].resp) \/ outcome.kind = "UnboundLocalError")

C8_Witness ==
  /\ CreateRadioCall
  /\ Len(log) = 2
  /\ ~Is2xx(log[2].resp)
  /\ outcome.kind = "RuntimeError"

(***************************************************************************)
(* C9                                                                      *)
(***************************************************************************)
ConstructionOrder == <<<<"POST", "oauth/token">>, <<"GET", "sites">>, <<"GET", "predictions">>, <<"GET", "users">>>>

\* C9: construction issues oauth/token, sites, predictions, users in that order and is all or
\* nothing: a failed authentication ends it with an error that starts with "Authentication
\* failed" and no fetch issued; a failed fetch ends it with an error, no later fetch issued
\* and no instance produced; an instance is produced only after all four were answered 2xx.
C9_ConstructionAllOrNothing ==
  ConstructCall =>
    /\ Len(log) \in 1..4
    /\ \A i \in DOMAIN log :
         /\ log[i].req.verb = ConstructionOrder[i][1]
         /\ log[i].req.url = <<base_endpoint, ConstructionOrder[i][2]>>
         /\ ~Is2xx(log[i].resp) =>
              /\ Len(log) = i
              /\ ~alive
              /\ outcome.kind = "RuntimeError"
              /\ i = 1 => outcome.msg[1] = "Authentication failed"
    /\ alive <=> (Len(log) = 4 /\ AllAnswered2xx)
    /\ ~alive => (sites = <<>> /\ predictions = <<>> /\ users = <<>> /\ outcome.kind # "return")

C9_Witness ==
  /\ ConstructCall
  /\ Len(log) = 3
  /\ ~Is2xx(log[3].resp)
  /\ ~alive

(***************************************************************************)
(* C10                                                                     *)
(***************************************************************************)
NotFound == [status |-> 404, json |-> ErrBody]
Found(list) == [status |-> 200, json |-> [has |-> TRUE, objects |-> list]]

\* how a call of `method` ends when its own request is answered 404
FailureOf(method) ==
  CASE method = "get_credits" -> get_credits(Self, NotFound).outcome
    [] method = "get_antennas" -> get_antennas(Self, 58, NotFound).outcome
    [] method = "get_site_radios" -> get_site_radios(Self, "s1", NotFound).outcome
    [] method = "get_radio" -> get_radio(Self, "r1", NotFound).outcome
    [] method = "delete_radio" -> delete_radio(Self, "r1", NotFound).outcome
    [] method = "create_radio" ->
         create_radio(Self, "s1", 58, "a1", 120, [radioName |-> Some(CustomName)],
                      Found(<<>>), Found(<<>>), NotFound).outcome
    [] method = "update_radio" -> update_radio(Self, "r1", 58, "a1", 120, <<>>, NotFound).outcome
    [] method = "get_sites" -> get_sites(Self, NotFound).outcome
    [] method = "rename_site" -> rename_site(Self, "s1", Denver, NotFound).outcome
    [] method = "create_site" -> create_site(Self, Denver, 397, 397, "c1", NotFound).outcome
    [] method = "get_predictions" -> get_predictions(Self, NotFound).outcome
    [] method = "create_prediction" -> create_prediction(Self, "Q3-Plan", <<"r1">>, NotFound).outcome
    [] method = "get_predictions_statuses" -> get_predictions_statuses(Self, NotFound).outcome
    [] method = "rename_prediction" -> rename_prediction(Self, "p1", "Q3-Plan", NotFound).outcome
    [] method = "delete_prediction" -> delete_prediction(Self, "p1", NotFound).outcome
    [] method = "get_users" -> get_users(Self, NotFound).outcome
    [] method = "add_user" -> add_user(Self, "ann@example.org", "admin", NotFound).outcome
    [] method = "delete_user" -> delete_user(Self, "ann@example.org", NotFound).outcome
    [] method = "get_subscriptions" -> get_subscriptions(Self, NotFound).outcome
    [] method = "renew_subscriptions" -> renew_subscriptions(Self, "s1", NotFound).outcome
    [] method = "terminate_subscription" -> terminate_subscription(Self, "s1", NotFound).outcome

\* C10: the prefix of a failure names its method: when a method's own request fails, no other
\* public method raises its own failure under the same prefix.
C10_PrefixIdentifiesMethod ==
  (call.method \in EndpointMethods /\ OwnRequestIssued /\ outcome.kind = "RuntimeError")
    => \A other \in EndpointMethods \ {call.method} :
         ~(FailureOf(other).kind = "RuntimeError" /\ FailureOf(other).msg[1] = outcome.msg[1])

(***************************************************************************)
(* C11                                                                     *)
(***************************************************************************)
RenamePredictionCall == call.method = "rename_prediction"

\* C11: rename_prediction(prediction_id, new_name) issues one PATCH to
\* prediction/{prediction_id}/rename under the base URL whose JSON body is exactly
\* {"name": new_name} and, when the answer is 2xx, returns the decoded response unchanged;
\* "p1" and "Q3-Plan" give a PATCH to prediction/p1/rename with body {"name": "Q3-Plan"}.
C11_RenamePredictionRequest ==
  RenamePredictionCall =>
    /\ Len(log) = 1
    /\ log[1].req.verb = "PATCH"
    /\ log[1].req.url = <<base_endpoint, "prediction/", call.args[1], "/rename">>
    /\ DOMAIN log[1].req.json = {"name"}
    /\ log[1].req.json.name = call.args[2]
    /\ log[1].req.data = <<>>
    /\ log[1].req.params = <<>>
    /\ Is2xx(log[1].resp) => (outcome.kind = "return" /\ outcome.value = log[1].resp.json)
    /\ (call.args = <<"p1", "Q3-Plan">>)
         => /\ log[1].req.url = <<base_endpoint, "prediction/", "p1", "/rename">>
            /\ log[1].req.json = [name |-> "Q3-Plan"]

C11_Witness ==
  /\ RenamePredictionCall
  /\ call.args = <<"p1", "Q3-Plan">>
  /\ log[1].req.verb = "PATCH"
  /\ Is2xx(log[1].resp)
  /\ outcome.kind = "return"
  /\ outcome.value = [result |-> "ok"]

====
